---- MODULE Spec2Model ----
(***************************************************************************)
(* Model of simple_playlist.py: JellyfinPlaylistGenerator.                *)
(*                                                                         *)
(* Texts (library names, file names, file contents) are sequences of       *)
(* string fragments; a library name is a sequence of one-character         *)
(* strings so that lower(), substring search and replace() are computed.   *)
(***************************************************************************)
EXTENDS Integers, Sequences, FiniteSets, TLC

\* ---------------------------------------------------------------- bounds
MaxN == 4          \* most items the server holds for one query scope (paging runs)
MaxPage == 3       \* largest page size (params['Limit']) tried in the paging runs
MaxTotal == 5      \* largest TotalRecordCount the server may report
MaxCalls == 6      \* the request counter is exact up to here, then stays
MaxFolders == 2    \* most entries of a media-folder list (discovery runs)
RunPage == 2       \* the page size (params['Limit']) of the whole-program runs
MaxSel == 2        \* most comma-separated fields of the library-numbers answer
MaxWriteFail == 1  \* most playlist writes that fail in one run
MaxClock == 1      \* latest time of the second run, the first being at 0

\* ------------------------------------------------------------- utilities
Min(a, b) == IF a < b THEN a ELSE b
Max(a, b) == IF a < b THEN b ELSE a
CeilDiv(n, p) == (n + p - 1) \div p

\* dict.get(field, default)
Get(rec, field, default) == IF field \in DOMAIN rec THEN rec[field] ELSE default

\* ------------------------------------------------- the server's movie items
\* Items as the server's JSON gives them; Brazil has no Id, Delicatessen has
\* an empty Id and no RunTimeTicks.
Alien == [Id |-> "a1", Name |-> "Alien", RunTimeTicks |-> 70000000]
Brazil == [Name |-> "Brazil", RunTimeTicks |-> 0]
Casablanca == [Id |-> "c3", Name |-> "Casablanca", RunTimeTicks |-> 25000000]
Delicatessen == [Id |-> "", Name |-> "Delicatessen"]
Eraserhead == [Id |-> "e5", Name |-> "Eraserhead", RunTimeTicks |-> 9999999]
Fargo == [Id |-> "f6", Name |-> "Fargo", RunTimeTicks |-> 10000000]
Movies == <<Alien, Brazil, Casablanca, Delicatessen, Eraserhead, Fargo>>

\* The first n movies, n capped by the number of movies there are.
FirstMovies(n) == SubSeq(Movies, 1, Min(n, Len(Movies)))

NoParent == "<none>"

VARIABLES
    pc,           \* where the program is
    limit,        \* params['Limit']
    parent,       \* params['ParentId'], NoParent when the key is not set
    start_index,  \* get_movies_from_library: start_index
    all_items,    \* get_movies_from_library: all_items
    srvScope,     \* server: the items of the scope the query names, in SortName order
    calls,        \* history: items requests issued by this fetch (exact up to MaxCalls)
    parity,       \* history: parity of the number of items requests issued
    delivered,    \* history: concatenation of the pages the server sent to this fetch
    failed,       \* history: a page request of this fetch failed
    honest,       \* history: every response of this fetch reported total = Len(srvScope)
    fullPages,    \* history: every response of this fetch held min(limit, remaining) items
    raised,       \* an exception left get_movies_from_library
    srvFolders,   \* server: the Items of /Library/MediaFolders
    listStatus,   \* get_libraries: how the last media-folder request ended
    libsRet,      \* get_libraries: the list the last call returned
    probeLog,     \* history: <<library id, response>> of each probe of the last call
    libMsg,       \* get_libraries: the last call printed "Error fetching libraries"
    libRaised,    \* an exception left the last call of get_libraries
    srvProbes,    \* server: the answers it may give to a probe
    srvPaging,    \* server: "exact" (full pages, true totals) or "any"
    issued,       \* history: the kinds of request issued so far
    connStatus,   \* generate_playlists: how the System/Info request ended
    result,       \* generate_playlists: "running", or the value returned
    libraries,    \* generate_playlists: libraries
    mode,         \* generate_playlists: "each" inside the loop of line 285, else "all"
    pending,      \* generate_playlists: the library names the loop of line 285 has yet to fetch
    cur,          \* the library_name the running fetch was called with, <<>> for none
    selected_libraries,  \* generate_playlists: selected_libraries
    library_movies,      \* generate_playlists: library_movies, a dict in insertion order
    url_types,    \* generate_playlists: url_types
    saved_files,  \* generate_playlists: saved_files
    files,        \* the working directory: a set of <<file name, content>>
    attempts,     \* history: every open(..., 'w') of the run, in order
    wfails,       \* environment: which playlist writes of the run failed
    sumFail,      \* environment: the write of the summary failed
    clock,        \* environment: datetime.datetime.now(), in seconds
    run,          \* 1 in the first run of the program, 2 after a second one
    prevFiles     \* history: the working directory as the first run left it

libVars == <<srvFolders, listStatus, libsRet, probeLog, libMsg, libRaised, srvProbes,
            srvPaging>>
runRest == <<connStatus, result, libraries, mode, pending, cur, selected_libraries,
             library_movies, url_types, saved_files, files, attempts, wfails, sumFail,
             clock, run, prevFiles>>
runVars == <<issued, runRest>>
fetchVars == <<limit, parent, start_index, all_items, srvScope, calls, parity,
               delivered, failed, honest, fullPages, raised>>
vars == <<pc, fetchVars, libVars, runVars>>


\* ------------------------------------------------------------ text helpers
UpperCase == <<"A", "B", "C", "D", "E", "F", "G", "H", "I", "J", "K", "L", "M",
               "N", "O", "P", "Q", "R", "S", "T", "U", "V", "W", "X", "Y", "Z">>
LowerCase == <<"a", "b", "c", "d", "e", "f", "g", "h", "i", "j", "k", "l", "m",
               "n", "o", "p", "q", "r", "s", "t", "u", "v", "w", "x", "y", "z">>

LowerChar(c) ==
    IF \E i \in DOMAIN UpperCase : UpperCase[i] = c
      THEN LowerCase[CHOOSE i \in DOMAIN UpperCase : UpperCase[i] = c]
      ELSE c

\* str.lower()
Lower(s) == [i \in 1..Len(s) |-> LowerChar(s[i])]

\* sub in s
Contains(sub, s) ==
    \E i \in 1..(Len(s) - Len(sub) + 1) : SubSeq(s, i, i + Len(sub) - 1) = sub

\* ------------------------------------------- the server's media folders
NameMovies == <<"M", "o", "v", "i", "e", "s">>
NameTV == <<"T", "V", " ", "S", "h", "o", "w", "s">>
NameKids == <<"K", "I", "D", "S", " ", "M", "O", "V", "I", "E", "S", "/", "N", "e", "w">>
NameAnime == <<"A", "n", "i", "m", "e">>
NameLower == <<"m", "o", "v", "i", "e", "s">>

FolderMovies == [Name |-> NameMovies, Id |-> "L1"]
FolderTV == [Name |-> NameTV, Id |-> "L2"]
FolderKids == [Name |-> NameKids, Id |-> "L3"]
FolderAnime == [Name |-> NameAnime, Id |-> "L4"]
FolderUnnamed == [Name |-> <<>>, Id |-> "L5"]
FolderLower == [Name |-> NameLower, Id |-> "L6"]

Folders == {FolderMovies, FolderTV, FolderKids, FolderAnime, FolderUnnamed, FolderLower}

\* The media-folder lists of at most n entries, no entry twice.
FolderLists(n) ==
    UNION {{f \in [1..k -> Folders] : \A i, j \in 1..k : f[i] = f[j] => i = j} : k \in 0..n}

\* What the server may answer to a probe (GET /Items?ParentId=..&Limit=1).
ProbeMovie == [status |-> "ok", Items |-> <<[Type |-> "Movie"]>>]
ProbeEpisode == [status |-> "ok", Items |-> <<[Type |-> "Episode"]>>]
ProbeUntyped == [status |-> "ok", Items |-> <<[Name |-> "x"]>>]
ProbeEmpty == [status |-> "ok", Items |-> <<>>]
ProbeNon200 == [status |-> "non200", Items |-> <<>>]
ProbeException == [status |-> "exception", Items |-> <<>>]
ProbeResponses ==
    {ProbeMovie, ProbeEpisode, ProbeUntyped, ProbeEmpty, ProbeNon200, ProbeException}

\* ------------------------------------------------------------ get_libraries
\* Lines 91-101: get_library_types, given the response to its request.
LibraryTypes(resp) ==
    IF resp.status = "ok" /\ resp.Items # <<>>
      THEN <<Get(resp.Items[1], "Type", "Unknown")>>
      ELSE <<"Unknown">>

\* Line 59 without the lower().
NameMatchesCaseSensitive(library_name) ==
    /\ library_name # <<>>
    /\ \/ Contains(<<"m", "o", "v", "i", "e">>, library_name)
       \/ Contains(<<"m", "o", "v", "i", "e", "s">>, library_name)

\* Line 59: library_name and ('movie' in library_name.lower() or 'movies' in ...)
NameMatches(library_name) ==
    /\ library_name # <<>>
    /\ \/ Contains(<<"m", "o", "v", "i", "e">>, Lower(library_name))
       \/ Contains(<<"m", "o", "v", "i", "e", "s">>, Lower(library_name))

\* Line 66: the entries that get_libraries probes.
NeedsProbe(item) ==
    LET library_name == Get(item, "Name", <<>>)
    IN  ~NameMatches(library_name) /\ library_name # <<>>

\* Lines 54-74: the loop over the entries; rs are the responses to the probes,
\* in the order the probes are issued.
RECURSIVE Scan(_, _)
Scan(entries, rs) ==
    IF entries = <<>> THEN [libs |-> <<>>, probes |-> <<>>]
    ELSE
      LET item == Head(entries)
          library_name == Get(item, "Name", <<>>)
          library_id == Get(item, "Id", "")
      IN  IF NameMatches(library_name)
            THEN LET rest == Scan(Tail(entries), rs)
                 IN  [libs |-> <<[id |-> library_id, name |-> library_name,
                                  type |-> "Movie"]>> \o rest.libs,
                      probes |-> rest.probes]
          ELSE IF library_name # <<>>
            THEN LET library_types == LibraryTypes(Head(rs))
                     rest == Scan(Tail(entries), Tail(rs))
                 IN  [libs |-> IF \E i \in DOMAIN library_types : library_types[i] = "Movie"
                                 THEN <<[id |-> library_id, name |-> library_name,
                                         type |-> "Mixed"]>> \o rest.libs
                                 ELSE rest.libs,
                      probes |-> <<<<library_id, Head(rs)>>>> \o rest.probes]
          ELSE Scan(Tail(entries), rs)

\* The number of probes get_libraries issues for these entries.
ProbeCount(entries) == Cardinality({i \in DOMAIN entries : NeedsProbe(entries[i])})

ListStatuses == {"ok", "non200", "exception"}

\* Lines 44-80: one call of get_libraries. The media-folder request ends with
\* `status` ("exception": the request or response.json() raises); rs are the
\* responses to the probes.
LibCall(status, rs) ==
    /\ listStatus' = status
    /\ libsRet' = IF status = "ok" THEN Scan(srvFolders, rs).libs ELSE <<>>
    /\ probeLog' = IF status = "ok" THEN Scan(srvFolders, rs).probes ELSE <<>>
    /\ libMsg' = (status = "exception")
    /\ libRaised' = FALSE
    /\ issued' = issued \cup {"folders"}
                    \cup (IF status = "ok" /\ ProbeCount(srvFolders) > 0 THEN {"probe"} ELSE {})
    /\ UNCHANGED <<srvFolders, srvProbes, srvPaging>>

\* The probe responses get_libraries can receive on the current folder list.
ProbeAnswers(status) ==
    IF status = "ok" THEN [1..ProbeCount(srvFolders) -> srvProbes] ELSE {<<>>}

\* get_libraries called on its own.
GetLibraries ==
    /\ pc = "libcall"
    /\ \E status \in ListStatuses : \E rs \in ProbeAnswers(status) : LibCall(status, rs)
    /\ pc' = "libdone"
    /\ UNCHANGED <<fetchVars, runRest>>

LibIdle ==
    /\ srvFolders = <<>>
    /\ listStatus = "none"
    /\ libsRet = <<>>
    /\ probeLog = <<>>
    /\ libMsg = FALSE
    /\ libRaised = FALSE
    /\ srvProbes = ProbeResponses
    /\ srvPaging = "any"

RunIdle ==
    /\ issued = {}
    /\ connStatus = "none"
    /\ result = "running"
    /\ libraries = <<>>
    /\ mode = "all"
    /\ pending = <<>>
    /\ cur = <<>>
    /\ selected_libraries = <<>>
    /\ library_movies = <<>>
    /\ url_types = <<>>
    /\ saved_files = <<>>
    /\ files = {}
    /\ attempts = <<>>
    /\ wfails = {}
    /\ sumFail = FALSE
    /\ clock = 0
    /\ run = 1
    /\ prevFiles = {}

FetchIdle ==
    /\ limit = 1
    /\ parent = NoParent
    /\ srvScope = <<>>
    /\ start_index = 0
    /\ all_items = <<>>
    /\ calls = 0
    /\ parity = 0
    /\ delivered = <<>>
    /\ failed = FALSE
    /\ honest = TRUE
    /\ fullPages = TRUE
    /\ raised = FALSE

\* ------------------------------------------------ get_movies_from_library
\* Lines 125-126: the loop's state at entry, for a query on the scope `scope`.
EnterFetch(p, scope) ==
    /\ parent' = p
    /\ srvScope' = scope
    /\ start_index' = 0
    /\ all_items' = <<>>
    /\ calls' = 0
    /\ delivered' = <<>>
    /\ failed' = FALSE
    /\ honest' = TRUE
    /\ fullPages' = TRUE
    /\ raised' = FALSE

\* Server: the page of at most k items at offset `start` of the scope.
Page(start, k) == SubSeq(srvScope, start + 1, start + k)

\* Server: the most items a page at offset `start` can hold.
Remaining(start) == Max(0, Min(limit, Len(srvScope) - start))

\* Server: the numbers of items the page at offset `start` may hold.
PageSizes(start) ==
    IF srvPaging = "exact" THEN {Remaining(start)} ELSE 0..Remaining(start)

\* Server: the values of TotalRecordCount it may report.
Totals == IF srvPaging = "exact" THEN {Len(srvScope)} ELSE 0..MaxTotal

\* Line 141: if len(all_items) >= total: break
LoopDoneOffByOne(all, total) == Len(all) >= total - 1
LoopDone(all, total) == Len(all) >= total

\* Line 144: start_index += len(items)
NextStartStuck(start, items) == start
NextStart(start, items) == start + Len(items)

Count(n) == IF n < MaxCalls THEN n + 1 ELSE n

\* Lines 130-145: one iteration whose request is answered 200 with k items and
\* TotalRecordCount = total.
FetchPage ==
    /\ pc = "fetch"
    /\ \E k \in PageSizes(start_index), total \in Totals :
        LET items == Page(start_index, k)
            all == all_items \o items
        IN  /\ all_items' = all
            /\ delivered' = delivered \o items
            /\ honest' = (honest /\ total = Len(srvScope))
            /\ fullPages' = (fullPages /\ k = Remaining(start_index))
            /\ IF LoopDone(all, total)
                 THEN /\ pc' = "fetched"
                      /\ start_index' = start_index
                 ELSE /\ pc' = "fetch"
                      /\ start_index' = NextStart(start_index, items)
    /\ calls' = Count(calls)
    /\ parity' = 1 - parity
    /\ issued' = issued \cup {"items"}
    /\ UNCHANGED <<limit, parent, srvScope, failed, raised>>
    /\ UNCHANGED <<libVars, runRest>>

\* Lines 146-152 with a retry instead of the break.
FetchFailRetry ==
    /\ pc = "fetch"
    /\ \E outcome \in {"non200", "exception"} :
        /\ pc' = "fetch"
        /\ failed' = TRUE
        /\ raised' = FALSE
    /\ calls' = Count(calls)
    /\ parity' = 1 - parity
    /\ issued' = issued \cup {"items"}
    /\ UNCHANGED <<limit, parent, start_index, all_items, srvScope, delivered,
                   honest, fullPages>>
    /\ UNCHANGED <<libVars, runRest>>

\* Lines 132-134, 146-152: one iteration whose request is answered by a status
\* other than 200, or raises; both break out of the loop and all_items is returned.
FetchFail ==
    /\ pc = "fetch"
    /\ \E outcome \in {"non200", "exception"} :
        /\ pc' = "fetched"
        /\ failed' = TRUE
        /\ raised' = FALSE
    /\ calls' = Count(calls)
    /\ parity' = 1 - parity
    /\ issued' = issued \cup {"items"}
    /\ UNCHANGED <<limit, parent, start_index, all_items, srvScope, delivered,
                   honest, fullPages>>
    /\ UNCHANGED <<libVars, runRest>>


\* ------------------------------------------------------ playlist rendering
\* The session: self.server_url and self.api_key.
ServerUrl == "http://host:8096"
ApiKey == <<"s", "e", "c", "r", "e", "t", "-", "t", "o", "k", "e", "n">>

TicksPerSecond == 10000000
KeyShown == 10

NoId == "<None>"

\* Lines 173-176.
get_stream_url_simple(item_id) ==
    <<ServerUrl, "/Videos/", item_id, "/stream.mp4?static=true">>

\* Lines 178-180.
get_stream_url_with_key(item_id) ==
    <<ServerUrl, "/Videos/", item_id, "/stream.mp4?api_key=">> \o ApiKey \o <<"&static=true">>

\* Line 206: int(duration_ticks // 10000000) if duration_ticks else -1
DurationSec(duration_ticks) ==
    IF duration_ticks # 0 THEN duration_ticks \div TicksPerSecond ELSE -1

\* Line 208: if item_id
HasId(movie) == Get(movie, "Id", NoId) \notin {NoId, ""}

\* Lines 203-218 without the test of line 208.
EntryUnguarded(movie, url_type) ==
    LET item_id == Get(movie, "Id", NoId)
        name == Get(movie, "Name", "Unknown")
        duration_sec == DurationSec(Get(movie, "RunTimeTicks", 0))
        url == IF url_type = "with_key" THEN get_stream_url_with_key(item_id)
                                        ELSE get_stream_url_simple(item_id)
    IN  <<"#EXTINF:", ToString(duration_sec), ",", name, "\n">> \o url \o <<"\n">>

\* Lines 203-218 (and 401-413): the text one movie adds to a playlist.
Entry(movie, url_type) ==
    IF HasId(movie) THEN EntryUnguarded(movie, url_type) ELSE <<>>

\* Lines 202, 400: the loop over the movies.
RECURSIVE Entries(_, _)
Entries(movies, url_type) ==
    IF movies = <<>> THEN <<>>
    ELSE Entry(Head(movies), url_type) \o Entries(Tail(movies), url_type)

\* Lines 188-200: the header of a per-library playlist.
Header(movies, library_name, url_type) ==
    <<"#EXTM3U", "\n", "# Jellyfin Playlist - ">> \o library_name
    \o <<"\n", "# Generated from: ", ServerUrl, "\n",
         "# Total movies: ", ToString(Len(movies)), "\n">>
    \o (IF url_type = "simple"
          THEN <<"# URL Format: ", ServerUrl, "/Videos/ID/stream.mp4?static=true", "\n",
                 "# Note: May work without authentication in VLC", "\n">>
        ELSE IF url_type = "with_key"
          THEN <<"# URL Format: ", ServerUrl, "/Videos/ID/stream.mp4?api_key=XXX&static=true", "\n",
                 "# Note: Contains API key in URL", "\n">>
        ELSE <<>>)
    \o <<"\n">>

\* Lines 182-220: generate_playlist_for_library (called with movies non-empty).
generate_playlist_for_library(movies, library_name, url_type) ==
    Header(movies, library_name, url_type) \o Entries(movies, url_type)

\* Lines 390-398: the header of the combined playlist.
CombinedHeader(movies, url_type) ==
    <<"#EXTM3U", "\n", "# Jellyfin Playlist - All Movies", "\n",
      "# Generated from: ", ServerUrl, "\n",
      "# Total movies: ", ToString(Len(movies)), "\n">>
    \o (IF url_type = "simple"
          THEN <<"# URL Format: ", ServerUrl, "/Videos/ID/stream.mp4?static=true", "\n", "\n">>
        ELSE IF url_type = "with_key"
          THEN <<"# URL Format: ", ServerUrl, "/Videos/ID/stream.mp4?api_key=XXX&static=true", "\n", "\n">>
        ELSE <<>>)

\* Lines 384-386: all_movies_combined, the lists of library_movies.values() in
\* the dict's (insertion) order.
RECURSIVE Combine(_)
Combine(lm) ==
    IF lm = <<>> THEN <<>> ELSE Head(lm).movies \o Combine(Tail(lm))

\* Lines 390-413: the combined playlist.
CombinedPlaylist(lm, url_type) ==
    CombinedHeader(Combine(lm), url_type) \o Entries(Combine(lm), url_type)

\* Lines 351-354: type_suffix.
TypeSuffix(url_type) ==
    IF url_type = "simple" THEN <<"_", "s", "i", "m", "p", "l", "e">>
    ELSE IF url_type = "with_key"
      THEN <<"_", "w", "i", "t", "h", "_", "a", "p", "i", "_", "k", "e", "y">>
    ELSE <<>>

\* Line 364: lib_name.replace(' ', '_').replace('/', '_').replace('\\', '_')
SafeName(lib_name) ==
    [i \in 1..Len(lib_name) |-> IF lib_name[i] \in {" ", "/", "\\"} THEN "_" ELSE lib_name[i]]

FilePrefix == <<"j", "e", "l", "l", "y", "f", "i", "n", "_">>
FileExt == <<".", "m", "3", "u">>

\* Line 365.
Filename(lib_name, url_type) ==
    FilePrefix \o SafeName(lib_name) \o TypeSuffix(url_type) \o FileExt

\* Line 415.
CombinedFilename(url_type) ==
    FilePrefix \o <<"A", "L", "L", "_", "M", "O", "V", "I", "E", "S">>
    \o TypeSuffix(url_type) \o FileExt

SummaryFilename ==
    <<"P", "L", "A", "Y", "L", "I", "S", "T", "S", "_", "S", "U", "M", "M", "A", "R", "Y",
      ".", "t", "x", "t">>

\* Line 383 with >= 1 for > 1.
CombinedDueFromOne(lm) == Len(lm) >= 1

\* Line 383: if len(library_movies) > 1
CombinedDue(lm) == Len(lm) > 1

\* Lines 359-380: the writes of one URL type's per-library playlists.
LibJobs(lm, url_type) ==
    LET kept == SelectSeq(lm, LAMBDA e : e.movies # <<>>)
    IN  [i \in 1..Len(kept) |->
            [kind |-> "lib", url_type |-> url_type, lib |-> kept[i].name,
             file |-> Filename(kept[i].name, url_type),
             content |-> generate_playlist_for_library(kept[i].movies, kept[i].name, url_type)]]

\* Lines 383-423: the write of one URL type's combined playlist, when due.
CombinedJobs(lm, url_type) ==
    IF CombinedDue(lm) /\ Combine(lm) # <<>>
      THEN <<[kind |-> "combined", url_type |-> url_type, lib |-> <<>>,
              file |-> CombinedFilename(url_type),
              content |-> CombinedPlaylist(lm, url_type)]>>
      ELSE <<>>

\* Lines 350-423: every playlist write of the run, in the order attempted.
RECURSIVE Jobs(_, _)
Jobs(lm, uts) ==
    IF uts = <<>> THEN <<>>
    ELSE LibJobs(lm, Head(uts)) \o CombinedJobs(lm, Head(uts)) \o Jobs(lm, Tail(uts))

\* ', '.join(url_types)
RECURSIVE Join(_)
Join(uts) ==
    IF uts = <<>> THEN <<>>
    ELSE IF Len(uts) = 1 THEN <<Head(uts)>>
    ELSE <<Head(uts), ", ">> \o Join(Tail(uts))

\* Lines 486-487.
RECURSIVE FileLines(_)
FileLines(saved) ==
    IF saved = <<>> THEN <<>>
    ELSE <<"- ">> \o Head(saved) \o <<"\n">> \o FileLines(Tail(saved))

\* Lines 490-491.
RECURSIVE Breakdown(_)
Breakdown(lm) ==
    IF lm = <<>> THEN <<>>
    ELSE <<"- **">> \o Head(lm).name \o <<"**: ", ToString(Len(Head(lm).movies)), " movies\n">>
         \o Breakdown(Tail(lm))

\* Lines 475-535: the summary text; now is the time create_summary_file reads.
\* The fixed paragraphs between the interpolated values are shortened to " ... ".
SummaryText(saved, lm, uts, now) ==
    <<"# Jellyfin Playlists Summary\n\n## Generated from: ", ServerUrl,
      "\n## Date: ", ToString(now), "\n## URL Types: ">> \o Join(uts)
    \o <<"\n\n## Playlists Created:\n">> \o FileLines(saved)
    \o <<"\n## Library Breakdown:\n">> \o Breakdown(lm)
    \o <<"\n## Total Movies: ", ToString(Len(Combine(lm))),
         "\n\n## URL Formats Used: ... ", ServerUrl, "/Videos/ITEM_ID/stream.mp4?static=true ... ",
         ServerUrl, "/Videos/ITEM_ID/stream.mp4?api_key=">>
    \o SubSeq(ApiKey, 1, Min(KeyShown, Len(ApiKey)))
    \o <<"...&static=true ... ", ServerUrl, "/Videos/MOVIE_ID/stream.mp4?static=true ... ",
         "X-Emby-Token: ">> \o ApiKey \o <<" ... Security Note ...\n">>

\* open(name, 'w') and write: the file is created or replaced.
WriteFile(fs, name, content) == {f \in fs : f[1] # name} \cup {<<name, content>>}

\* Lines 359-423 with one try around the loops: the first write that raises
\* ends the playlist writes.
RECURSIVE WriteAllAbort(_, _, _, _)
WriteAllAbort(fs, jobs, i, fails) ==
    IF i > Len(jobs) \/ i \in fails THEN fs
    ELSE WriteAllAbort(WriteFile(fs, jobs[i].file, jobs[i].content), jobs, i + 1, fails)

\* The directory after the writes jobs[i..]; the writes in fails raise.
RECURSIVE WriteAll(_, _, _, _)
WriteAll(fs, jobs, i, fails) ==
    IF i > Len(jobs) THEN fs
    ELSE WriteAll(IF i \in fails THEN fs ELSE WriteFile(fs, jobs[i].file, jobs[i].content),
                  jobs, i + 1, fails)

\* Lines 377, 420: saved_files, the names of the writes that did not raise.
SavedOf(jobs, fails) ==
    LET ok == SelectSeq([i \in 1..Len(jobs) |-> i], LAMBDA i : i \notin fails)
    IN  [k \in 1..Len(ok) |-> jobs[ok[k]].file]

\* Lines 347-426: the directory after the write phase of a run at time now.
WritePhase(fs, lm, uts, fails, sfail, now) ==
    LET jobs == Jobs(lm, uts)
        after == WriteAll(fs, jobs, 1, fails)
    IN  IF sfail THEN after
        ELSE WriteFile(after, SummaryFilename,
                       SummaryText(SavedOf(jobs, fails), lm, uts, now))


\* ------------------------------------------------------ generate_playlists
\* Server: the movies of each library, in SortName order.
LibMovies(library_id) ==
    CASE library_id = "L1" -> <<Alien, Brazil>>
      [] library_id = "L3" -> <<Casablanca>>
      [] library_id = "L4" -> <<Delicatessen, Eraserhead>>
      [] library_id = "L6" -> <<Fargo>>
      [] OTHER -> <<>>

\* Server: the movies a query names: those of library p, or without ParentId
\* those of every library of the server.
ScopeOf(p) ==
    IF p # NoParent THEN LibMovies(p)
    ELSE SelectSeq(Movies, LAMBDA m :
            \E i \in DOMAIN srvFolders :
                \E j \in DOMAIN LibMovies(srvFolders[i].Id) :
                    LibMovies(srvFolders[i].Id)[j] = m)

NameAll == <<"a", "l", "l">>
NameAllMovies == <<"A", "l", "l", " ", "M", "o", "v", "i", "e", "s">>

\* Lines 226-237 with a failed check ignored.
ConnCheckIgnoreFailure ==
    /\ pc = "start"
    /\ \E outcome \in ListStatuses :
        /\ connStatus' = outcome
        /\ pc' = "discover"
        /\ UNCHANGED result
    /\ issued' = issued \cup {"info"}
    /\ UNCHANGED <<fetchVars, libVars, libraries, mode, pending, cur, selected_libraries,
                   library_movies, url_types, saved_files, files, attempts, wfails,
                   sumFail, clock, run, prevFiles>>

\* Lines 226-237: the connectivity check.
ConnCheck ==
    /\ pc = "start"
    /\ \E outcome \in ListStatuses :
        /\ connStatus' = outcome
        /\ IF outcome = "ok"
             THEN pc' = "discover" /\ UNCHANGED result
             ELSE pc' = "done" /\ result' = "False"
    /\ issued' = issued \cup {"info"}
    /\ UNCHANGED <<fetchVars, libVars, libraries, mode, pending, cur, selected_libraries,
                   library_movies, url_types, saved_files, files, attempts, wfails,
                   sumFail, clock, run, prevFiles>>

\* Lines 239-249: library discovery.
Discover ==
    /\ pc = "discover"
    /\ \E status \in ListStatuses : \E rs \in ProbeAnswers(status) : LibCall(status, rs)
    /\ libraries' = libsRet'
    /\ IF libsRet' = <<>>
         THEN pc' = "done" /\ result' = "False"
         ELSE pc' = "choose" /\ UNCHANGED result
    /\ UNCHANGED <<fetchVars, connStatus, mode, pending, cur, selected_libraries,
                   library_movies, url_types, saved_files, files, attempts, wfails,
                   sumFail, clock, run, prevFiles>>

Digits == <<"0", "1", "2", "3", "4", "5", "6", "7", "8", "9">>

\* str.isdigit()
IsDigit(num) ==
    num # <<>> /\ \A i \in DOMAIN num : \E d \in DOMAIN Digits : Digits[d] = num[i]

\* int(num), for a num of digits
RECURSIVE IntOf(_)
IntOf(num) ==
    IF num = <<>> THEN 0
    ELSE 10 * IntOf(SubSeq(num, 1, Len(num) - 1))
         + (CHOOSE d \in DOMAIN Digits : Digits[d] = num[Len(num)]) - 1

\* Lines 285-290: the names of the libraries the fields of the answer select.
RECURSIVE Picked(_, _)
Picked(selected_nums, libs) ==
    IF selected_nums = <<>> THEN <<>>
    ELSE LET num == Head(selected_nums)
             rest == Picked(Tail(selected_nums), libs)
         IN  IF IsDigit(num) /\ 0 <= IntOf(num) - 1 /\ IntOf(num) - 1 < Len(libs)
               THEN <<libs[IntOf(num)].name>> \o rest
               ELSE rest

\* The fields a user may type between commas, and the answers of at most n fields.
Fields == {<<"1">>, <<"2">>, <<"3">>, <<"x">>}
Selections(n) == UNION {[1..k -> Fields] : k \in 0..n}

\* Lines 259-280, 305-308: the library-scope prompt. Choice 2 reads the numbers;
\* any other choice fetches all libraries (get_all_movies, lines 158-162).
Choose ==
    /\ pc = "choose"
    /\ \E choice \in {"1", "2", "x"} :
        IF choice = "2"
          THEN /\ \E sel \in Selections(MaxSel) : pending' = Picked(sel, libraries)
               /\ mode' = "each"
               /\ pc' = "next"
               /\ UNCHANGED <<selected_libraries, cur, parent, srvScope, start_index,
                              all_items, calls, delivered, failed, honest, fullPages, raised>>
          ELSE /\ mode' = "all"
               /\ selected_libraries' = <<NameAll>>
               /\ pending' = <<>>
               /\ cur' = <<>>
               /\ EnterFetch(NoParent, ScopeOf(NoParent))
               /\ pc' = "fetch"
    /\ UNCHANGED <<limit, parity, libVars, issued, connStatus, result, libraries,
                   library_movies, url_types, saved_files, files, attempts, wfails,
                   sumFail, clock, run, prevFiles>>

\* Lines 119-123: the ParentId of the first library of that name, letter case
\* ignored; NoParent when there is none.
Resolve(libs, library_name) ==
    IF \E i \in DOMAIN libs : Lower(libs[i].name) = Lower(library_name)
      THEN libs[CHOOSE i \in DOMAIN libs :
                  /\ Lower(libs[i].name) = Lower(library_name)
                  /\ \A j \in 1..(i - 1) : Lower(libs[j].name) # Lower(library_name)].id
      ELSE NoParent

\* Lines 285-293 and 103-128: the loop takes the next selected library and calls
\* get_movies_from_library(library_name=lib_name), which lists the libraries
\* again to find the ParentId.
BeginLibraryFetch ==
    /\ pc = "next"
    /\ pending # <<>>
    /\ \E status \in ListStatuses : \E rs \in ProbeAnswers(status) : LibCall(status, rs)
    /\ LET p == Resolve(libsRet', Head(pending))
       IN  EnterFetch(p, ScopeOf(p))
    /\ cur' = Head(pending)
    /\ pending' = Tail(pending)
    /\ selected_libraries' = Append(selected_libraries, Head(pending))
    /\ pc' = "fetch"
    /\ UNCHANGED <<limit, parity, connStatus, result, libraries, mode, library_movies,
                   url_types, saved_files, files, attempts, wfails, sumFail, clock, run,
                   prevFiles>>

\* Lines 298-303: nothing was stored by the loop; all libraries are fetched.
FallbackToAll ==
    /\ pc = "next"
    /\ pending = <<>>
    /\ library_movies = <<>>
    /\ mode' = "all"
    /\ selected_libraries' = <<NameAll>>
    /\ cur' = <<>>
    /\ EnterFetch(NoParent, ScopeOf(NoParent))
    /\ pc' = "fetch"
    /\ UNCHANGED <<limit, parity, libVars, issued, connStatus, result, libraries, pending,
                   library_movies, url_types, saved_files, files, attempts, wfails,
                   sumFail, clock, run, prevFiles>>

\* Lines 298, 312: the loop is over and something was stored.
SelectionDone ==
    /\ pc = "next"
    /\ pending = <<>>
    /\ library_movies # <<>>
    /\ pc' = "urlchoice"
    /\ UNCHANGED <<fetchVars, libVars, runVars>>

\* library_movies[name] = movies on a dict kept in insertion order.
DictSet(lm, name, movies) ==
    IF \E i \in DOMAIN lm : lm[i].name = name
      THEN [i \in DOMAIN lm |-> IF lm[i].name = name
                                  THEN [name |-> name, movies |-> movies] ELSE lm[i]]
      ELSE Append(lm, [name |-> name, movies |-> movies])

\* Lines 119-123, 152: get_movies_from_library returns and what its call of
\* get_libraries left (the list, the record of its requests) is gone.
LibReturn ==
    /\ listStatus' = "none"
    /\ libsRet' = <<>>
    /\ probeLog' = <<>>
    /\ libMsg' = FALSE
    /\ libRaised' = FALSE
    /\ UNCHANGED <<srvFolders, srvProbes, srvPaging>>

\* Lines 293-296: the fetch of a selected library returned.
StoreLibrary ==
    /\ pc = "fetched"
    /\ mode = "each"
    /\ library_movies' = IF all_items # <<>>
                           THEN DictSet(library_movies, cur, all_items)
                           ELSE library_movies
    /\ EnterFetch(NoParent, <<>>)
    /\ LibReturn
    /\ cur' = <<>>
    /\ pc' = "next"
    /\ UNCHANGED <<limit, parity, issued, connStatus, result, libraries, mode,
                   pending, selected_libraries, url_types, saved_files, files, attempts,
                   wfails, sumFail, clock, run, prevFiles>>

\* Lines 161-162, 269-273 (301-303, 308-310) and 312-314: the fetch of all
\* libraries returned.
StoreAll ==
    /\ pc = "fetched"
    /\ mode = "all"
    /\ library_movies' = IF all_items # <<>>
                           THEN DictSet(library_movies, NameAllMovies, all_items)
                           ELSE library_movies
    /\ EnterFetch(NoParent, <<>>)
    /\ IF library_movies' = <<>>
         THEN pc' = "done" /\ result' = "False"
         ELSE pc' = "urlchoice" /\ UNCHANGED result
    /\ UNCHANGED <<limit, parity, libVars, issued, connStatus, libraries, mode, pending,
                   cur, selected_libraries, url_types, saved_files, files, attempts,
                   wfails, sumFail, clock, run, prevFiles>>

\* Lines 325-340: the URL-type prompt.
ChooseUrl ==
    /\ pc = "urlchoice"
    /\ \E url_choice \in {"1", "2", "3", "x"} :
        url_types' = IF url_choice = "2" THEN <<"with_key">>
                     ELSE IF url_choice = "3" THEN <<"simple", "with_key">>
                     ELSE <<"simple">>
    /\ pc' = "write"
    /\ UNCHANGED <<fetchVars, libVars, issued, connStatus, result, libraries, mode,
                   pending, cur, selected_libraries, library_movies, saved_files, files,
                   attempts, wfails, sumFail, clock, run, prevFiles>>

\* The sets of at most MaxWriteFail of n writes.
FailSets(n) == {F \in SUBSET (1..n) : Cardinality(F) <= MaxWriteFail}

\* Lines 347-471 and 473-542: every playlist is rendered and written, then the
\* summary; a write that raises is reported (the summary's silently) and the
\* next one is made.
WriteFiles ==
    /\ pc = "write"
    /\ LET jobs == Jobs(library_movies, url_types)
       IN  \E fails \in FailSets(Len(jobs)), sfail \in BOOLEAN :
            /\ wfails' = fails
            /\ sumFail' = sfail
            /\ saved_files' = SavedOf(jobs, fails)
            /\ files' = WritePhase(files, library_movies, url_types, fails, sfail, clock)
            /\ attempts' =
                 [i \in 1..Len(jobs) |->
                    [kind |-> jobs[i].kind, url_type |-> jobs[i].url_type,
                     lib |-> jobs[i].lib, file |-> jobs[i].file,
                     content |-> jobs[i].content, ok |-> i \notin fails]]
                 \o <<[kind |-> "summary", url_type |-> "", lib |-> <<>>,
                       file |-> SummaryFilename,
                       content |-> SummaryText(SavedOf(jobs, fails), library_movies,
                                               url_types, clock),
                       ok |-> ~sfail]>>
    /\ pc' = "done"
    /\ result' = "True"
    /\ UNCHANGED <<fetchVars, libVars, issued, connStatus, libraries, mode, pending, cur,
                   selected_libraries, library_movies, url_types, clock, run, prevFiles>>

\* main() run a second time, at a time not before the first, with the server's
\* responses, the user's choices and the outcome of each write as in the first
\* run: lines 226-345 compute the same library_movies and url_types again, and
\* lines 347-426 write the files again.
Rerun ==
    /\ pc = "done"
    /\ run = 1
    /\ run' = 2
    /\ prevFiles' = files
    /\ \E now \in clock..MaxClock :
        /\ clock' = now
        /\ files' = IF result = "True"
                      THEN WritePhase(files, library_movies, url_types, wfails, sumFail, now)
                      ELSE files
    /\ UNCHANGED <<pc, fetchVars, libVars, issued, connStatus, result, libraries, mode,
                   pending, cur, selected_libraries, library_movies, url_types,
                   saved_files, attempts, wfails, sumFail>>

\* ------------------------------------------------- the paging specification
\* get_movies_from_library called on a scope of n items with page size p.
InitFetch ==
    /\ pc = "fetch"
    /\ LibIdle
    /\ RunIdle
    /\ limit \in 1..MaxPage
    /\ parent = NoParent
    /\ srvScope \in {FirstMovies(n) : n \in 0..MaxN}
    /\ start_index = 0
    /\ all_items = <<>>
    /\ calls = 0
    /\ parity = 0
    /\ delivered = <<>>
    /\ failed = FALSE
    /\ honest = TRUE
    /\ fullPages = TRUE
    /\ raised = FALSE

NextFetch == FetchPage \/ FetchFail

SpecFetch == InitFetch /\ [][NextFetch]_vars

\* The program always executes its next statement; the server is free.
FairSpecFetch == SpecFetch /\ WF_vars(NextFetch)

\* ------------------------------------------- the discovery specification
\* get_libraries called against a server with any media-folder list.
InitLib ==
    /\ pc = "libcall"
    /\ FetchIdle
    /\ RunIdle
    /\ srvProbes = ProbeResponses
    /\ srvPaging = "any"
    /\ srvFolders \in FolderLists(MaxFolders)
    /\ listStatus = "none"
    /\ libsRet = <<>>
    /\ probeLog = <<>>
    /\ libMsg = FALSE
    /\ libRaised = FALSE

NextLib == GetLibraries

SpecLib == InitLib /\ [][NextLib]_vars

\* ------------------------------------------------- the run specifications
RunFolderLists ==
    {<<>>, <<FolderKids>>, <<FolderMovies, FolderTV>>, <<FolderMovies, FolderAnime>>,
     <<FolderAnime, FolderLower>>, <<FolderMovies, FolderLower>>}

\* generate_playlists against a server with one of the folder lists above, that
\* answers item queries with full pages and true totals (or fails).
InitRun ==
    /\ pc = "start"
    /\ RunIdle
    /\ srvFolders \in RunFolderLists
    /\ srvProbes = {ProbeMovie, ProbeEpisode, ProbeException}
    /\ srvPaging = "exact"
    /\ listStatus = "none"
    /\ libsRet = <<>>
    /\ probeLog = <<>>
    /\ libMsg = FALSE
    /\ libRaised = FALSE
    /\ limit = RunPage
    /\ parent = NoParent
    /\ srvScope = <<>>
    /\ start_index = 0
    /\ all_items = <<>>
    /\ calls = 0
    /\ parity = 0
    /\ delivered = <<>>
    /\ failed = FALSE
    /\ honest = TRUE
    /\ fullPages = TRUE
    /\ raised = FALSE

NextRun ==
    \/ ConnCheck
    \/ Discover
    \/ Choose
    \/ BeginLibraryFetch
    \/ FetchPage
    \/ FetchFail
    \/ StoreLibrary
    \/ FallbackToAll
    \/ SelectionDone
    \/ StoreAll
    \/ ChooseUrl
    \/ WriteFiles

SpecRun == InitRun /\ [][NextRun]_vars

NextRerun == NextRun \/ Rerun

SpecRerun == InitRun /\ [][NextRerun]_vars

\* --------------------------------------------------------- claims: paging
\* C1: when every page request succeeds and every response reports the total N,
\* the list returned is exactly the server's N items, each once, in the server's
\* order, whatever the page sizes the server chose (short pages included).
C1_CompleteInOrder ==
    (pc = "fetched" /\ ~failed /\ honest) => all_items = srvScope

\* C1 witness: a fetch of at least three items returned after a short page.
C1_Witness ==
    /\ pc = "fetched" /\ ~failed /\ honest /\ ~fullPages
    /\ Len(srvScope) >= 3 /\ Len(all_items) >= 3 /\ calls >= 2

\* C2: the pagination loop always terminates, whatever the server answers.
C2_Terminates == <>(pc = "fetched")

\* C3 as stated: with successful, full pages and the total N reported, exactly
\* ceil(N/P) requests are issued, for every N >= 0.
C3_CallsCeil ==
    (pc = "fetched" /\ ~failed /\ honest /\ fullPages)
        => calls = CeilDiv(Len(srvScope), limit)

\* C3 amended: with successful, full pages and the total N reported, exactly
\* ceil(N/P) requests are issued when N >= 1 and exactly one when N = 0; with
\* short pages never fewer.
C3_CallsCeilOrOne ==
    /\ (pc = "fetched" /\ ~failed /\ honest /\ fullPages)
        => calls = Max(1, CeilDiv(Len(srvScope), limit))
    /\ (pc = "fetched" /\ ~failed /\ honest)
        => calls >= Max(1, CeilDiv(Len(srvScope), limit))

\* C3 witness: a fetch of full pages whose last page is partly filled.
C3_Witness ==
    /\ pc = "fetched" /\ ~failed /\ honest /\ fullPages
    /\ calls >= 2 /\ Len(srvScope) % limit # 0

\* C4: once a page request has failed the loop is left (no retry, no later
\* page), nothing is raised, and the list returned is exactly what the earlier
\* pages delivered, in order.
C4_FailureTruncates ==
    failed => (pc # "fetch" /\ ~raised /\ all_items = delivered)

\* C4 witness: a failure after at least two items, before the scope was complete.
C4_Witness ==
    /\ failed /\ pc = "fetched"
    /\ Len(all_items) >= 2 /\ Len(all_items) < Len(srvScope)

\* ------------------------------------------------------ claims: discovery
\* The entries whose name contains "movie" in any letter case, by inspection.
MovieNamed == {FolderMovies, FolderKids, FolderLower}

\* The probe of entry f was answered with an item of type Movie.
ProbedMovie(f) ==
    \E j \in DOMAIN probeLog : probeLog[j][1] = f.Id /\ probeLog[j][2] = ProbeMovie

ExpectedEntries == SelectSeq(srvFolders, LAMBDA f : f \in MovieNamed \/ ProbedMovie(f))

\* C5: on a successful listing get_libraries returns, in server order, exactly
\* the entries named "movie" (any case) as 'Movie', never probed, and the other
\* entries whose probe returned an item of type Movie as 'Mixed'; every other
\* entry is left out.
C5_Classification ==
    (pc = "libdone" /\ listStatus = "ok") =>
        /\ libsRet = [i \in 1..Len(ExpectedEntries) |->
                        [id |-> ExpectedEntries[i].Id,
                         name |-> ExpectedEntries[i].Name,
                         type |-> IF ExpectedEntries[i] \in MovieNamed
                                    THEN "Movie" ELSE "Mixed"]]
        /\ \A f \in MovieNamed : \A j \in DOMAIN probeLog : probeLog[j][1] # f.Id

\* C5 witness: the libraries Movies and TV Shows, the probe of TV Shows answered
\* with an Episode, and only Movies returned.
C5_Witness ==
    /\ pc = "libdone" /\ listStatus = "ok"
    /\ srvFolders = <<FolderMovies, FolderTV>>
    /\ probeLog = <<<<"L2", ProbeEpisode>>>>
    /\ libsRet = <<[id |-> "L1", name |-> NameMovies, type |-> "Movie"]>>

\* C6: when the media-folder request fails (exception or status other than
\* 200) get_libraries returns an empty list, prints an error message and does
\* not raise; a failed probe does not raise either.
C6_ListingFailureReported ==
    /\ (pc = "libdone" /\ listStatus \in {"non200", "exception"})
          => (libsRet = <<>> /\ libMsg /\ ~libRaised)
    /\ pc = "libdone" => ~libRaised

\* ------------------------------------------------------ claims: rendering
Finished == pc = "done" /\ result = "True"

CombinedAttempted(ut) ==
    \E i \in DOMAIN attempts :
        /\ attempts[i].kind = "combined"
        /\ attempts[i].url_type = ut
        /\ attempts[i].file = CombinedFilename(ut)

\* C7: for each requested URL mode the combined file jellyfin_ALL_MOVIES<suffix>.m3u
\* is written if and only if library_movies holds more than one library group;
\* with one selected library, or the 'all libraries' scope, there is none. A
\* combined file is in the directory only if it was due, and is there and listed
\* as saved when its write did not fail.
C7_CombinedIffSeveral ==
    Finished =>
        /\ \A ut \in {"simple", "with_key"} :
            /\ CombinedAttempted(ut)
                 <=> ((\E k \in DOMAIN url_types : url_types[k] = ut)
                      /\ Len(library_movies) > 1)
            /\ (\E f \in files : f[1] = CombinedFilename(ut)) => Len(library_movies) > 1
        /\ \A i \in DOMAIN attempts :
            (attempts[i].kind = "combined" /\ attempts[i].ok) =>
                /\ <<attempts[i].file, attempts[i].content>> \in files
                /\ \E k \in DOMAIN saved_files : saved_files[k] = attempts[i].file
        /\ (mode = "all" \/ Len(selected_libraries) = 1) =>
              \A i \in DOMAIN attempts : attempts[i].kind # "combined"

\* C7 witness: two library groups and both URL modes, both combined files written.
C7_Witness ==
    /\ Finished
    /\ Len(library_movies) = 2
    /\ url_types = <<"simple", "with_key">>
    /\ \A ut \in {"simple", "with_key"} :
        CombinedAttempted(ut) /\ \E f \in files : f[1] = CombinedFilename(ut)

\* The lines of a text: the fragments between the "\n" fragments.
RECURSIVE SplitLines(_, _)
SplitLines(text, line) ==
    IF text = <<>> THEN (IF line = <<>> THEN <<>> ELSE <<line>>)
    ELSE IF Head(text) = "\n" THEN <<line>> \o SplitLines(Tail(text), <<>>)
    ELSE SplitLines(Tail(text), Append(line, Head(text)))

\* The (EXTINF line, URL line) pairs of a playlist text, in order.
EntryPairs(text) ==
    LET lines == SplitLines(text, <<>>)
        at == SelectSeq([i \in 1..Len(lines) |-> i],
                        LAMBDA i : lines[i] # <<>> /\ lines[i][1] = "#EXTINF:")
    IN  [k \in 1..Len(at) |-> <<lines[at[k]], lines[at[k] + 1]>>]

\* <<identifier in the URL, name in the EXTINF line, start of the URL's query>>
\* of each entry pair.
EntryFacts(text) ==
    LET pairs == EntryPairs(text)
    IN  [k \in 1..Len(pairs) |-> <<pairs[k][2][3], pairs[k][1][4], pairs[k][2][4]>>]

\* The same of the items of a list that have a non-empty identifier, in order.
ExpectedFacts(movies, ut) ==
    LET kept == SelectSeq(movies, LAMBDA m : "Id" \in DOMAIN m /\ m.Id # "")
    IN  [k \in 1..Len(kept) |->
            <<kept[k].Id, kept[k].Name,
              IF ut = "with_key" THEN "/stream.mp4?api_key=" ELSE "/stream.mp4?static=true">>]

\* The lists of the library groups one after the other, first group first.
RECURSIVE InOrder(_)
InOrder(lm) ==
    IF lm = <<>> THEN <<>>
    ELSE InOrder(SubSeq(lm, 1, Len(lm) - 1)) \o lm[Len(lm)].movies

\* C8: the entry pairs of every rendered playlist are exactly the input items
\* that have a non-empty identifier, one pair each, in the order fetched; the
\* input of the combined playlist is the groups' lists in the order of
\* library_movies, and that order follows the order of selection.
C8_EntriesAreItemsWithId ==
    Finished =>
        /\ \A i \in DOMAIN attempts :
            /\ attempts[i].kind = "lib" =>
                 \E g \in DOMAIN library_movies :
                    /\ library_movies[g].name = attempts[i].lib
                    /\ EntryFacts(attempts[i].content)
                         = ExpectedFacts(library_movies[g].movies, attempts[i].url_type)
            /\ attempts[i].kind = "combined" =>
                 EntryFacts(attempts[i].content)
                    = ExpectedFacts(InOrder(library_movies), attempts[i].url_type)
        /\ mode = "each" =>
             \A g, h \in DOMAIN library_movies :
                g < h => \E a, b \in DOMAIN selected_libraries :
                            /\ a < b
                            /\ selected_libraries[a] = library_movies[g].name
                            /\ selected_libraries[b] = library_movies[h].name

\* C8 witness: Anime selected before Movies; the combined playlist was rendered
\* from Delicatessen (empty Id), Eraserhead, Alien, Brazil (no Id).
C8_Witness ==
    /\ Finished
    /\ Len(library_movies) = 2
    /\ library_movies[1].name = NameAnime
    /\ InOrder(library_movies) = <<Delicatessen, Eraserhead, Alien, Brazil>>
    /\ \E i \in DOMAIN attempts :
        /\ attempts[i].kind = "combined"
        /\ Len(EntryPairs(attempts[i].content)) = 2

\* C9: a second run with the same server responses and the same choices leaves
\* every file it writes byte for byte as the first run left it.
C9_RerunIdentical == run = 2 => files = prevFiles

\* C10: when the connectivity check fails the run ends returning False with
\* no request but System/Info issued and no file written; and no file is ever
\* written without a successful connectivity check.
C10_NoOutputWithoutConnection ==
    /\ connStatus \in {"non200", "exception"} =>
          /\ pc = "done" /\ result = "False"
          /\ issued = {"info"}
          /\ attempts = <<>> /\ files = {}
    /\ (attempts # <<>> \/ files # {}) => connStatus = "ok"

\* C10 witness: the System/Info request raised and the run is over.
C10_Witness == connStatus = "exception" /\ pc = "done" /\ result = "False"

\* --------------------------------------------------- claims: file writes
\* C11: a write that fails does not stop the others: for every requested URL
\* mode, in order, the playlist of every library group is written, then the
\* combined playlist when there are several groups, and at the end the summary,
\* whichever writes failed; the files of the writes that did not fail are on
\* disk, those of the failed ones are not, and saved_files lists exactly the
\* playlist files written, in order.
C11_WritesContinue ==
    Finished =>
        LET n == Len(library_movies)
            per == IF n > 1 THEN n + 1 ELSE n
            last == Len(url_types) * per + 1
        IN  /\ Len(attempts) = last
            /\ \A u \in DOMAIN url_types :
                /\ \A g \in 1..n :
                    /\ library_movies[g].movies # <<>>
                    /\ attempts[(u - 1) * per + g].kind = "lib"
                    /\ attempts[(u - 1) * per + g].file
                         = Filename(library_movies[g].name, url_types[u])
                /\ n > 1 =>
                    /\ attempts[u * per].kind = "combined"
                    /\ attempts[u * per].file = CombinedFilename(url_types[u])
            /\ attempts[last].kind = "summary"
            /\ attempts[last].file = SummaryFilename
            /\ attempts[last].content
                 = SummaryText(saved_files, library_movies, url_types, clock)
            /\ \A i \in DOMAIN attempts :
                IF attempts[i].ok
                  THEN <<attempts[i].file, attempts[i].content>> \in files
                  ELSE \A f \in files : f[1] # attempts[i].file
            /\ LET written == SelectSeq(SubSeq(attempts, 1, last - 1), LAMBDA a : a.ok)
               IN  saved_files = [k \in 1..Len(written) |-> written[k].file]

\* C11 witness: the first of at least three playlist writes failed, every later
\* write and the summary were made, and all but the first are listed as saved.
C11_Witness ==
    /\ Finished
    /\ Len(attempts) >= 4
    /\ ~attempts[1].ok
    /\ \A i \in 2..Len(attempts) : attempts[i].ok
    /\ Len(saved_files) = Len(attempts) - 2
    /\ \A k \in DOMAIN saved_files : saved_files[k] # attempts[1].file

\* ------------------------------------------------ claims: library scope
\* The identifier of the library of that name among those the user chose from.
OwnId(name) ==
    libraries[CHOOSE i \in DOMAIN libraries : libraries[i].name = name].id

\* C12: every items request of the fetch of a library selected by number has
\* that library's identifier as ParentId, whatever the re-discovery returned;
\* a request without ParentId is made only when no library was named; and the
\* movies stored under a selected library's name are movies of that library.
C12_ScopedToOwnLibrary ==
    /\ (pc = "fetch" /\ cur # <<>>) => parent = OwnId(cur)
    /\ (pc = "fetch" /\ parent = NoParent) => cur = <<>>
    /\ mode = "each" =>
          \A g \in DOMAIN library_movies :
              \A k \in DOMAIN library_movies[g].movies :
                  \E j \in DOMAIN LibMovies(OwnId(library_movies[g].name)) :
                      LibMovies(OwnId(library_movies[g].name))[j]
                          = library_movies[g].movies[k]

====
